---- MODULE Spec2Model ----
(***************************************************************************)
(* Model of the ingestion pipeline: the Gateway (src/api/main.py) accepts  *)
(* structured or raw-text submissions, normalizes them and publishes them  *)
(* to the bus; the Consumer (src/worker/main.py) handles one bus delivery  *)
(* per invocation, redacts the text and writes the result to the store.    *)
(*                                                                         *)
(* A Python str is a sequence of one-character strings; Python's None is    *)
(* the distinguished tuple None, which is not a str.                       *)
(***************************************************************************)
EXTENDS Integers, Sequences, FiniteSets, TLC

\* ------------------------------------------------------------- state

VARIABLES
  now,        \* the wall clock both services read
  uuids,      \* how many uuids the Gateway has drawn
  published,  \* the messages the bus has accepted, in order
  gw,         \* the last ingest call: its request, response, publish attempts
  store,      \* the document store: path |-> document
  inv,        \* the Consumer invocations, one per worker slot
  firstDoc    \* history: record |-> the document its first successful
              \* delivery stored

vars == <<now, uuids, published, gw, store, inv, firstDoc>>

\* ---------------------------------------------------------------- values

None == <<"None">>

\* a presence test that lets the empty string through
Truthy_not_none(v) == v # None

\* Python's truth value of an optional str, as `if not x` tests it
Truthy(v) == v # None /\ v # << >>

Str_a == <<"a">>
Str_x == <<"x">>
Str_y == <<"y">>
Str_hi == <<"h", "i">>
Str_phone == <<"5", "5", "5", "-", "1", "2", "3", "-", "4", "5", "6", "7">>
Str_room == <<"r", "o", "o", "m", " ", "4", "5", "6", "7">>
Str_tenants == <<"t", "e", "n", "a", "n", "t", "s">>
Str_processed_logs ==
  <<"p", "r", "o", "c", "e", "s", "s", "e", "d", "_", "l", "o", "g", "s">>
Str_slash == <<"/">>
Str_json_upload == <<"j", "s", "o", "n", "_", "u", "p", "l", "o", "a", "d">>
Str_text_upload == <<"t", "e", "x", "t", "_", "u", "p", "l", "o", "a", "d">>
REDACTED == <<"[", "R", "E", "D", "A", "C", "T", "E", "D", "]">>

Digits == {"0", "1", "2", "3", "4", "5", "6", "7", "8", "9"}
Letters == {"a", "b", "c", "d", "e", "f", "g", "h", "i", "j", "k", "l", "m",
            "n", "o", "p", "q", "r", "s", "t", "u", "v", "w", "x", "y", "z",
            "A", "C", "D", "E", "R", "T", "Z"}
\* the characters the class [-.\s] accepts
Separators == {"-", ".", " "}
\* the characters \w accepts, which decide where \b holds
WordChars == Digits \cup Letters \cup {"_"}

DigitChar == <<"0", "1", "2", "3", "4", "5", "6", "7", "8", "9">>

\* ------------------------------------------------------- the transform

\* \b at the gap before position i (1-based) of text
WordBoundary(text, i) ==
  LET before == i > 1 /\ text[i - 1] \in WordChars
      after == i <= Len(text) /\ text[i] \in WordChars
  IN before # after

\* text[i .. i+n-1] are n digits
DigitsAt(text, i, n) ==
  /\ i + n - 1 <= Len(text)
  /\ \A k \in i .. (i + n - 1) : text[k] \in Digits

SepAt(text, i) == i <= Len(text) /\ text[i] \in Separators

\* the rest of the pattern, [-.\s]?\d{4}\b, from position i: the position
\* after the match, or 0
MatchTail(text, i) ==
  IF SepAt(text, i) /\ DigitsAt(text, i + 1, 4) /\ WordBoundary(text, i + 5)
  THEN i + 5
  ELSE IF DigitsAt(text, i, 4) /\ WordBoundary(text, i + 4)
  THEN i + 4
  ELSE 0

\* \d{3,4}[-.\s]?\d{4}\b from position i, the greedy choice first
MatchMiddle(text, i) ==
  IF DigitsAt(text, i, 4) /\ MatchTail(text, i + 4) # 0
  THEN MatchTail(text, i + 4)
  ELSE IF DigitsAt(text, i, 3) /\ MatchTail(text, i + 3) # 0
  THEN MatchTail(text, i + 3)
  ELSE 0

\* the whole pattern \b\d{3}[-.\s]?\d{3,4}[-.\s]?\d{4}\b anchored at i: the
\* position after the match the backtracking search finds first, or 0
MatchAt(text, i) ==
  IF ~(WordBoundary(text, i) /\ DigitsAt(text, i, 3))
  THEN 0
  ELSE IF SepAt(text, i + 3) /\ MatchMiddle(text, i + 4) # 0
  THEN MatchMiddle(text, i + 4)
  ELSE MatchMiddle(text, i + 3)

\* re.sub: scan from the left, replace each match, resume after it
RECURSIVE ReSub(_, _)
ReSub(text, i) ==
  IF i > Len(text)
  THEN << >>
  ELSE IF MatchAt(text, i) # 0
  THEN REDACTED \o ReSub(text, MatchAt(text, i))
  ELSE <<text[i]>> \o ReSub(text, i + 1)

\* a transform whose result depends on when it runs
simulate_heavy_processing_by_clock(text) ==
  IF now = 0 THEN ReSub(text, 1) ELSE text

simulate_heavy_processing(text) == ReSub(text, 1)

\* ------------------------------------------------------- the store path

RECURSIVE SplitFrom(_, _, _)
SplitFrom(s, i, cur) ==
  IF i > Len(s)
  THEN <<cur>>
  ELSE IF s[i] = "/"
  THEN <<cur>> \o SplitFrom(s, i + 1, << >>)
  ELSE SplitFrom(s, i + 1, Append(cur, s[i]))

\* str.split("/")
Split(s) == SplitFrom(s, 1, << >>)

\* db.collection("tenants").document(tenant_id): the client joins the
\* collection path and the id with "/" and splits the result into segments
TenantDocPath(tenant_id) == Str_tenants \o Str_slash \o tenant_id

\* ....collection("processed_logs").document(log_id)
DocPath(tenant_id, log_id) ==
  TenantDocPath(tenant_id) \o Str_slash \o Str_processed_logs
    \o Str_slash \o log_id

\* a document reference is built only from an even number of segments
DocRefOk(tenant_id, log_id) ==
  /\ Len(Split(TenantDocPath(tenant_id))) % 2 = 0
  /\ Len(Split(DocPath(tenant_id, log_id))) % 2 = 0

\* ------------------------------------------------------------ bounds

MaxClock == 1
MaxUuid == 2
MaxPublished == 2

\* the Consumer instances that can run at once
Workers == {"w1", "w2"}

\* ---------------------------------------------------- clock, ids, codec

\* datetime.utcnow().isoformat() + "Z"
IsoFormat(t) == <<DigitChar[t + 1], "Z">>

\* a generator that returns the same identifier at every draw
Uuid4_repeated(n) == <<"u", DigitChar[1]>>

\* str(uuid.uuid4()), the n-th one this process draws
Uuid4(n) == <<"u", DigitChar[n + 1]>>

\* the id the bus assigns to the n-th message it accepts
BusMessageId(n) == <<"m", DigitChar[n + 1]>>

\* json.dumps, str.encode("utf-8") and the bus's base64 transport encoding,
\* each a wrapper its own decoder alone removes
JsonDumps(v) == [kind |-> "json", of |-> v]
Utf8Encode(s) == [kind |-> "utf8", of |-> s]
Base64Encode(b) == [kind |-> "base64", of |-> b]

\* JSON values as the handlers see them after parsing
JsonDict(f) == [kind |-> "dict", fields |-> f]
JsonNull == [kind |-> "null", fields |-> << >>]
JsonList == [kind |-> "list", fields |-> << >>]
JsonNumber == [kind |-> "number", fields |-> << >>]

\* Python's truth value of a parsed JSON value
JsonTruthy(j) ==
  CASE j.kind = "null" -> FALSE
    [] j.kind = "dict" -> DOMAIN j.fields # {}
    [] OTHER -> TRUE

\* dict.get(key), None when the key is absent
Get(f, key) == IF key \in DOMAIN f THEN f[key] ELSE None

\* dict.get(key, default)
GetDefault(f, key, default) == IF key \in DOMAIN f THEN f[key] ELSE default

\* ------------------------------------------------------------- Gateway

\* a normalization that tags every record as a structured upload
normalize_to_internal_format_one_source(tenant_id, log_id, text, source, t) ==
  [tenant_id |-> tenant_id,
   log_id |-> log_id,
   text |-> text,
   source |-> Str_json_upload,
   received_at |-> IsoFormat(t)]

normalize_to_internal_format(tenant_id, log_id, text, source, t) ==
  [tenant_id |-> tenant_id,
   log_id |-> log_id,
   text |-> text,
   source |-> source,
   received_at |-> IsoFormat(t)]

\* the message handed to publisher.publish: the encoded record and the
\* tenant_id attribute
publish_to_pubsub(message) ==
  [data |-> Utf8Encode(JsonDumps(JsonDict(message))),
   attributes |-> [tenant_id |-> message.tenant_id]]

ErrorResponse(status, error) ==
  [status |-> status, error |-> error, message_id |-> None,
   log_id |-> None, tenant_id |-> None]

\* an exception handler that answers as if the submission had been accepted
ExceptionResponse_accepted(e) ==
  [status |-> 202, error |-> "", message_id |-> None,
   log_id |-> None, tenant_id |-> None]

\* the handler of any exception raised inside ingest: the exception e is
\* printed and the body carries a fixed text
ExceptionResponse(e) ==
  ErrorResponse(500, "Internal server error")

\* the accepted body with log_id and tenant_id the wrong way round
AcceptedResponse_swapped(message_id, log_id, tenant_id) ==
  [status |-> 202, error |-> "", message_id |-> message_id,
   log_id |-> tenant_id, tenant_id |-> log_id]

AcceptedResponse(message_id, log_id, tenant_id) ==
  [status |-> 202, error |-> "", message_id |-> message_id,
   log_id |-> log_id, tenant_id |-> tenant_id]

\* What ingest() does with a request up to the publish: either the response
\* it returns early, or the record it goes on to publish.  n is the number
\* of uuids drawn so far, t the clock.
IngestPlan(req, n, t) ==
  IF req.content_type = "application/json"
  THEN IF req.json = "raise" \/ (JsonTruthy(req.data) /\ req.data.kind # "dict")
       THEN [early |-> TRUE, uuids |-> 0,
             resp |-> ExceptionResponse("request.get_json or data.get raised")]
       ELSE IF ~JsonTruthy(req.data)
       THEN [early |-> TRUE, uuids |-> 0,
             resp |-> ErrorResponse(400, "Invalid JSON payload")]
       ELSE IF ~Truthy(Get(req.data.fields, "tenant_id"))
       THEN [early |-> TRUE, uuids |-> 0,
             resp |-> ErrorResponse(400, "Missing tenant_id")]
       ELSE IF ~Truthy(Get(req.data.fields, "text"))
       THEN [early |-> TRUE, uuids |-> 0,
             resp |-> ErrorResponse(400, "Missing text")]
       ELSE [early |-> FALSE, uuids |-> 1,
             record |-> normalize_to_internal_format(
                          Get(req.data.fields, "tenant_id"),
                          GetDefault(req.data.fields, "log_id", Uuid4(n)),
                          Get(req.data.fields, "text"),
                          Str_json_upload, t)]
  ELSE IF req.content_type = "text/plain"
  THEN IF ~Truthy(req.tenant_header)
       THEN [early |-> TRUE, uuids |-> 0,
             resp |-> ErrorResponse(400, "Missing X-Tenant-ID header")]
       ELSE IF ~Truthy(req.body)
       THEN [early |-> TRUE, uuids |-> 0,
             resp |-> ErrorResponse(400, "Empty text payload")]
       ELSE [early |-> FALSE, uuids |-> 1,
             record |-> normalize_to_internal_format(
                          req.tenant_header, Uuid4(n), req.body,
                          Str_text_upload, t)]
  ELSE [early |-> TRUE, uuids |-> 0,
        resp |-> ErrorResponse(415,
          "Unsupported Content-Type. Use application/json or text/plain")]

\* ------------------------------------------------------ Gateway inputs

Str_a_x == Str_a \o Str_slash \o Str_processed_logs \o Str_slash \o Str_x
Str_x_y == Str_x \o Str_slash \o Str_processed_logs \o Str_slash \o Str_y

TenantIds == {Str_a, Str_a_x}

JsonRequest(json, data) ==
  [content_type |-> "application/json", json |-> json, data |-> data,
   tenant_header |-> None, body |-> << >>]

TextRequest(content_type, tenant_header, body) ==
  [content_type |-> content_type, json |-> "none", data |-> JsonNull,
   tenant_header |-> tenant_header, body |-> body]

StructuredBodies ==
  {[tenant_id |-> t, text |-> x] :
     t \in TenantIds \cup {<< >>}, x \in {Str_hi, << >>}}
  \cup {[tenant_id |-> Str_a, text |-> Str_hi, log_id |-> l] :
     l \in {Str_y, << >>, None}}
  \cup {[tenant_id |-> Str_a], [text |-> Str_hi], [log_id |-> Str_y]}

\* every shape of request the Gateway distinguishes
IngestRequests ==
  {JsonRequest("value", JsonDict(f)) : f \in StructuredBodies}
  \cup {JsonRequest("raise", JsonNull), JsonRequest("value", JsonNull),
        JsonRequest("value", JsonDict(<< >>)), JsonRequest("value", JsonList)}
  \cup {TextRequest("text/plain", h, b) :
          h \in {None, << >>, Str_a}, b \in {<< >>, Str_hi}}
  \cup {TextRequest("application/xml", Str_a, Str_hi),
        TextRequest("", Str_a, Str_hi)}

\* the submissions the pipeline is followed for: two separate calls that
\* supply the same tenant_id and log_id with different texts
PipelineRequests ==
  {JsonRequest("value", JsonDict(f)) :
     f \in {[tenant_id |-> Str_a, text |-> Str_hi, log_id |-> Str_y],
            [tenant_id |-> Str_a, text |-> Str_phone, log_id |-> Str_y]}}

\* submissions whose ids contain the path separator, and one plain one
IsolationRequests ==
  {JsonRequest("value", JsonDict(f)) :
     f \in {[tenant_id |-> Str_a, text |-> Str_hi, log_id |-> Str_y],
            [tenant_id |-> Str_a_x, text |-> Str_hi, log_id |-> Str_y],
            [tenant_id |-> Str_a, text |-> Str_phone, log_id |-> Str_x_y]}}

\* ------------------------------------------------------ the ingest call

NoRequest == TextRequest("", None, << >>)

GwIdle == [req |-> NoRequest, resp |-> ErrorResponse(0, ""), attempts |-> 0]

\* POST /ingest, the whole handler.  The bus either confirms the publish
\* (future.result() returns the id it assigned) or fails it (it raises).
Ingest(req) ==
  LET plan == IngestPlan(req, uuids, now)
  IN /\ uuids + plan.uuids <= MaxUuid
     /\ uuids' = uuids + plan.uuids
     /\ IF plan.early
        THEN /\ gw' = [req |-> req, resp |-> plan.resp, attempts |-> 0]
             /\ published' = published
        ELSE \E confirmed \in BOOLEAN :
               IF confirmed /\ Len(published) < MaxPublished
               THEN LET id == BusMessageId(Len(published))
                    IN /\ published' = Append(published,
                            [messageId |-> id]
                              @@ publish_to_pubsub(plan.record))
                       /\ gw' = [req |-> req,
                                 resp |-> AcceptedResponse(id,
                                   plan.record.log_id, plan.record.tenant_id),
                                 attempts |-> 1]
               ELSE /\ published' = published
                    /\ gw' = [req |-> req,
                              resp |-> ExceptionResponse("publish failed"),
                              attempts |-> 1]
     /\ UNCHANGED <<now, store, inv, firstDoc>>

Tick ==
  /\ now < MaxClock
  /\ now' = now + 1
  /\ UNCHANGED <<uuids, published, gw, store, inv, firstDoc>>

\* ------------------------------------------------------------ Consumer

WorkerError(status, error) ==
  [status |-> status, error |-> error, body_status |-> "",
   tenant_id |-> None, log_id |-> None]

Processed(tenant_id, log_id) ==
  [status |-> 200, error |-> "", body_status |-> "processed",
   tenant_id |-> tenant_id, log_id |-> log_id]

\* the handler of `except Exception`: 500 with the exception's text
ProcessingFailure_400(error) == WorkerError(400, error)

ProcessingFailure(error) == WorkerError(500, error)

\* what process_pubsub answers once save_to_firestore has returned (stored)
\* or raised
WriteOutcome_always_ack(m, stored) == Processed(m.tenant_id, m.log_id)

WriteOutcome(m, stored) ==
  IF stored
  THEN Processed(m.tenant_id, m.log_id)
  ELSE ProcessingFailure("document write failed")

\* `key in j` for a parsed JSON value j: a dict answers by its keys, a list
\* by its elements (none of which is the key), anything else raises TypeError
JsonIn(j, key) ==
  CASE j.kind = "dict" -> IF key \in DOMAIN j.fields THEN "yes" ELSE "no"
    [] j.kind = "list" -> "no"
    [] OTHER -> "raise"

\* the push request the bus makes for a message it holds
PushEnvelope(m) ==
  [json |-> "value",
   envelope |-> JsonDict(
     [message |-> JsonDict([data |-> Base64Encode(m.data),
                            attributes |-> m.attributes,
                            messageId |-> m.messageId]),
      subscription |-> "ingest-sub"])]

\* base64.b64decode(data).decode("utf-8") and json.loads of the result: the
\* parsed value, or the exception raised on the way
DecodeData(data) ==
  IF data.kind # "base64"
  THEN [ok |-> FALSE, error |-> "Incorrect padding"]
  ELSE IF data.of.kind # "utf8"
  THEN [ok |-> FALSE, error |-> "'utf-8' codec can't decode byte"]
  ELSE IF data.of.of.kind # "json"
  THEN [ok |-> FALSE, error |-> "Expecting value: line 1 column 1 (char 0)"]
  ELSE [ok |-> TRUE, value |-> data.of.of.of]

AllRequired(message) ==
  /\ Truthy(Get(message, "tenant_id"))
  /\ Truthy(Get(message, "log_id"))
  /\ Truthy(Get(message, "text"))
  /\ Truthy(Get(message, "source"))

\* process_pubsub up to the field check: the response it returns early, or
\* the decoded message it goes on to process
DecodePlan(req) ==
  IF req.json = "raise"
  THEN [early |-> TRUE,
        resp |-> ProcessingFailure("400 Bad Request: Failed to decode JSON object")]
  ELSE IF ~JsonTruthy(req.envelope)
  THEN [early |-> TRUE,
        resp |-> WorkerError(400, "No Pub/Sub message received")]
  ELSE IF JsonIn(req.envelope, "message") = "raise"
  THEN [early |-> TRUE,
        resp |-> ProcessingFailure("argument of type 'int' is not iterable")]
  ELSE IF JsonIn(req.envelope, "message") = "no"
  THEN [early |-> TRUE,
        resp |-> WorkerError(400, "Invalid Pub/Sub message format")]
  ELSE IF JsonIn(req.envelope.fields.message, "data") = "raise"
  THEN [early |-> TRUE,
        resp |-> ProcessingFailure("argument of type 'NoneType' is not iterable")]
  ELSE IF JsonIn(req.envelope.fields.message, "data") = "no"
  THEN [early |-> TRUE,
        resp |-> WorkerError(400, "No data in Pub/Sub message")]
  ELSE LET decoded == DecodeData(req.envelope.fields.message.fields.data)
       IN IF ~decoded.ok
          THEN [early |-> TRUE, resp |-> ProcessingFailure(decoded.error)]
          ELSE IF decoded.value.kind # "dict"
          THEN [early |-> TRUE,
                resp |-> ProcessingFailure(
                           "'list' object has no attribute 'get'")]
          ELSE IF ~AllRequired(decoded.value.fields)
          THEN [early |-> TRUE,
                resp |-> WorkerError(400,
                           "Missing required fields in message")]
          ELSE [early |-> FALSE, message |-> decoded.value.fields]

\* a write that measures the redacted text instead of the original
save_to_firestore_modified_length(tenant_id, log_id, original_text, modified_text, source, received_at, t) ==
  [path |-> DocPath(tenant_id, log_id),
   doc |-> [source |-> source,
            original_text |-> original_text,
            modified_data |-> modified_text,
            processed_at |-> IsoFormat(t),
            received_at |-> received_at,
            text_length |-> Len(modified_text)]]

\* a write that stamps received_at with the time of processing
save_to_firestore_restamp(tenant_id, log_id, original_text, modified_text, source, received_at, t) ==
  [path |-> DocPath(tenant_id, log_id),
   doc |-> [source |-> source,
            original_text |-> original_text,
            modified_data |-> modified_text,
            processed_at |-> IsoFormat(t),
            received_at |-> IsoFormat(t),
            text_length |-> Len(original_text)]]

save_to_firestore(tenant_id, log_id, original_text, modified_text, source, received_at, t) ==
  [path |-> DocPath(tenant_id, log_id),
   doc |-> [source |-> source,
            original_text |-> original_text,
            modified_data |-> modified_text,
            processed_at |-> IsoFormat(t),
            received_at |-> received_at,
            text_length |-> Len(original_text)]]

\* a write that creates the document and leaves an existing one alone
DocSet_create_only(s, path, doc) ==
  IF path \in DOMAIN s THEN s ELSE (path :> doc) @@ s

\* doc_ref.set(doc_data): the document at the path is replaced whole
DocSet(s, path, doc) == (path :> doc) @@ s

NoPush == [json |-> "none", envelope |-> JsonNull]

InvIdle ==
  [pc |-> "idle", req |-> NoPush, message |-> << >>,
   modified_text |-> << >>, transformed |-> FALSE, wrote |-> FALSE,
   resp |-> WorkerError(0, "")]

\* POST / arrives: decode and validate (lines 93-118)
Deliver(w, req) ==
  /\ inv[w].pc = "idle"
  /\ LET plan == DecodePlan(req)
     IN inv' = [inv EXCEPT ![w] =
          IF plan.early
          THEN [InvIdle EXCEPT !.pc = "done", !.req = req, !.resp = plan.resp]
          ELSE [InvIdle EXCEPT !.pc = "transform", !.req = req,
                               !.message = plan.message]]
  /\ UNCHANGED <<now, uuids, published, gw, store, firstDoc>>

\* simulate_heavy_processing(text) returns, or raises
Transform(w) ==
  /\ inv[w].pc = "transform"
  /\ \E ok \in BOOLEAN :
       inv' = [inv EXCEPT ![w] =
         IF ok
         THEN [@ EXCEPT !.pc = "write", !.transformed = TRUE,
                 !.modified_text =
                   simulate_heavy_processing(inv[w].message.text)]
         ELSE [@ EXCEPT !.pc = "done",
                 !.resp = ProcessingFailure("transform interrupted")]]
  /\ UNCHANGED <<now, uuids, published, gw, store, firstDoc>>

\* save_to_firestore(...) and the response that follows it.  The write fails
\* when no document reference can be built from the ids, or when the store
\* does.
Write(w) ==
  /\ inv[w].pc = "write"
  /\ LET m == inv[w].message
         saved == save_to_firestore(m.tenant_id, m.log_id, m.text,
                    inv[w].modified_text, m.source,
                    Get(m, "received_at"), now)
     IN \E ok \in BOOLEAN :
          LET stored == ok /\ DocRefOk(m.tenant_id, m.log_id)
          IN /\ inv' = [inv EXCEPT ![w].pc = "done", ![w].wrote = stored,
                          ![w].resp = WriteOutcome(m, stored)]
             /\ store' = IF stored
                         THEN DocSet(store, saved.path, saved.doc)
                         ELSE store
             /\ firstDoc' = IF stored /\ m \notin DOMAIN firstDoc
                            THEN (m :> saved.doc) @@ firstDoc
                            ELSE firstDoc
  /\ UNCHANGED <<now, uuids, published, gw>>

\* the response reaches the bus and the worker slot is free again
Return(w) ==
  /\ inv[w].pc = "done"
  /\ inv' = [inv EXCEPT ![w] = InvIdle]
  /\ UNCHANGED <<now, uuids, published, gw, store, firstDoc>>

\* ------------------------------------------------------ Consumer inputs

BaseRecord ==
  normalize_to_internal_format(Str_a, Str_y, Str_phone, Str_json_upload, 0)

RecordFields == {"tenant_id", "log_id", "text", "source", "received_at"}

Without(f, key) == [k \in DOMAIN f \ {key} |-> f[k]]

\* records as any publisher may put them on the topic: well-formed, or with
\* one field missing or empty
ForeignRecords ==
  {BaseRecord}
  \cup {Without(BaseRecord, k) : k \in RecordFields}
  \cup {[BaseRecord EXCEPT !.tenant_id = << >>],
        [BaseRecord EXCEPT !.log_id = << >>],
        [BaseRecord EXCEPT !.text = << >>],
        [BaseRecord EXCEPT !.received_at = << >>]}

EnvelopeOf(data) ==
  [json |-> "value",
   envelope |-> JsonDict([message |-> JsonDict([data |-> data]),
                          subscription |-> "ingest-sub"])]

NotBase64 == [kind |-> "text", of |-> << >>]
NotUtf8 == [kind |-> "bytes", of |-> << >>]
NotJson == [kind |-> "text", of |-> << >>]

ForeignPushes ==
  {EnvelopeOf(Base64Encode(Utf8Encode(JsonDumps(JsonDict(r))))) :
     r \in ForeignRecords}
  \cup {EnvelopeOf(NotBase64),
        EnvelopeOf(Base64Encode(NotUtf8)),
        EnvelopeOf(Base64Encode(Utf8Encode(NotJson))),
        EnvelopeOf(Base64Encode(Utf8Encode(JsonDumps(JsonList))))}
  \cup {[json |-> "raise", envelope |-> JsonNull],
        [json |-> "value", envelope |-> JsonNull],
        [json |-> "value", envelope |-> JsonDict(<< >>)],
        [json |-> "value", envelope |-> JsonList],
        [json |-> "value", envelope |-> JsonNumber],
        [json |-> "value", envelope |-> JsonDict([subscription |-> "ingest-sub"])],
        [json |-> "value", envelope |-> JsonDict([message |-> JsonNull])],
        [json |-> "value",
         envelope |-> JsonDict([message |-> JsonDict([messageId |-> <<"m", "9">>])])]}

BusPushes == {PushEnvelope(published[i]) : i \in 1 .. Len(published)}

\* ------------------------------------------------------- specification

Init ==
  /\ now = 0
  /\ uuids = 0
  /\ published = << >>
  /\ gw = GwIdle
  /\ store = << >>
  /\ inv = [w \in Workers |-> InvIdle]
  /\ firstDoc = << >>

\* the whole pipeline: submissions the Gateway accepts, delivered by the bus
\* (any message, any number of times) to concurrent Consumer invocations
Next ==
  \/ Tick
  \/ \E req \in PipelineRequests : Ingest(req)
  \/ \E w \in Workers : \E req \in BusPushes : Deliver(w, req)
  \/ \E w \in Workers : Transform(w)
  \/ \E w \in Workers : Write(w)
  \/ \E w \in Workers : Return(w)

Spec == Init /\ [][Next]_vars

\* the pipeline again, for submissions whose ids contain "/"
NextIsolation ==
  \/ Tick
  \/ \E req \in IsolationRequests : Ingest(req)
  \/ \E w \in Workers : \E req \in BusPushes : Deliver(w, req)
  \/ \E w \in Workers : Transform(w)
  \/ \E w \in Workers : Write(w)
  \/ \E w \in Workers : Return(w)

SpecIsolation == Init /\ [][NextIsolation]_vars

\* the Gateway alone, over every shape of request
NextGateway ==
  \/ Tick
  \/ \E req \in IngestRequests : Ingest(req)

SpecGateway == Init /\ [][NextGateway]_vars

\* the Consumer alone, over every shape of push request
NextConsumer ==
  \/ Tick
  \/ \E w \in Workers : \E req \in ForeignPushes : Deliver(w, req)
  \/ \E w \in Workers : Transform(w)
  \/ \E w \in Workers : Write(w)
  \/ \E w \in Workers : Return(w)

SpecConsumer == Init /\ [][NextConsumer]_vars

\* ------------------------------------------------------------- claims

\* the fields of a stored document other than its timestamps
Content(doc) ==
  [source |-> doc.source,
   original_text |-> doc.original_text,
   modified_data |-> doc.modified_data,
   text_length |-> doc.text_length]

PathOf(m) == DocPath(m.tenant_id, m.log_id)

\* worker w's step is a successful write
WriteSucceeds(w) ==
  /\ inv[w].pc = "write"
  /\ inv'[w].pc = "done"
  /\ inv'[w].wrote

\* a bus message's payload, decoded
RecordOf(m) == m.data.of.of.fields

MessageIdOf(w) == inv[w].req.envelope.fields.message.fields.messageId

\* C1: idempotent reprocessing.  Every successful delivery of a record r
\* leaves at r's key a document with the same source, original_text,
\* modified_data and text_length as the document r's first successful
\* delivery stored there.
C1_IdempotentReprocessing ==
  [][\A w \in Workers :
       WriteSucceeds(w) =>
         Content(store'[PathOf(inv[w].message)])
           = Content(firstDoc'[inv[w].message])]_vars

\* a record has been stored again, later than its first delivery
C1_Witness ==
  \E m \in DOMAIN firstDoc :
    /\ PathOf(m) \in DOMAIN store
    /\ store[PathOf(m)].original_text = m.text
    /\ store[PathOf(m)].received_at = m.received_at
    /\ store[PathOf(m)].processed_at # firstDoc[m].processed_at
    /\ Content(store[PathOf(m)]) = Content(firstDoc[m])

C3_TenantIsolation ==
  /\ \A m \in DOMAIN firstDoc :
       Split(PathOf(m))
         = <<Str_tenants, m.tenant_id, Str_processed_logs, m.log_id>>
  /\ \A m1, m2 \in DOMAIN firstDoc :
       PathOf(m1) = PathOf(m2)
         => m1.tenant_id = m2.tenant_id /\ m1.log_id = m2.log_id

\* a request the Gateway's validation is to refuse: an unrecognized kind, a
\* structured body that is no object or lacks a non-empty tenant_id or
\* text, a raw upload without tenant header or with an empty body
InvalidRequest(req) ==
  \/ req.content_type \notin {"application/json", "text/plain"}
  \/ /\ req.content_type = "application/json"
     /\ \/ req.json = "raise"
        \/ req.data.kind # "dict"
        \/ Get(req.data.fields, "tenant_id") \in {None, << >>}
        \/ Get(req.data.fields, "text") \in {None, << >>}
  \/ /\ req.content_type = "text/plain"
     /\ \/ req.tenant_header \in {None, << >>}
        \/ req.body = << >>

\* C4: fail fast.  A call whose request fails validation makes no publish
\* attempt and leaves the published messages as they were.
C4_FailFast ==
  [][InvalidRequest(gw'.req) =>
       published' = published /\ gw'.attempts = 0]_vars

\* a request has been refused while the bus already held a message
C4_Witness ==
  /\ InvalidRequest(gw.req)
  /\ gw.resp.status \in {400, 415}
  /\ Len(published) >= 1

C6_PublishedFieldsNonEmpty ==
  \A i \in 1 .. Len(published) :
    \A k \in {"tenant_id", "log_id", "text", "source", "received_at"} :
      /\ k \in DOMAIN RecordOf(published[i])
      /\ RecordOf(published[i])[k] \notin {None, << >>}

\* C7: no acknowledgement without the write.  An invocation that answers 200
\* has, itself, completed the transform of its record's text and written
\* the record's document, which the store holds at the record's key.
C7_AckOnlyAfterWrite ==
  \A w \in Workers :
    (inv[w].pc = "done" /\ inv[w].resp.status = 200) =>
      /\ inv[w].transformed
      /\ inv[w].modified_text = simulate_heavy_processing(inv[w].message.text)
      /\ inv[w].wrote
      /\ inv[w].message \in DOMAIN firstDoc
      /\ PathOf(inv[w].message) \in DOMAIN store
      /\ inv[w].resp.tenant_id = inv[w].message.tenant_id
      /\ inv[w].resp.log_id = inv[w].message.log_id

\* a delivery has been acknowledged
C7_Witness ==
  \E w \in Workers :
    /\ inv[w].pc = "done"
    /\ inv[w].resp.status = 200
    /\ store[PathOf(inv[w].message)].modified_data = REDACTED

\* C8: a failure while processing a structurally valid record is retryable.
\* The step in which the transform or the store write fails answers 500,
\* and a failing transform leaves the store as it was.
C8_ProcessingFailureRetryable ==
  [][\A w \in Workers :
       /\ (inv[w].pc = "transform" /\ inv'[w].pc = "done") =>
            inv'[w].resp.status = 500 /\ store' = store
       /\ (inv[w].pc = "write" /\ inv'[w].pc = "done" /\ ~inv'[w].wrote) =>
            inv'[w].resp.status = 500 /\ store' = store]_vars

\* one invocation's transform has failed and another's write has failed,
\* with a document in the store
C8_Witness ==
  \E w1, w2 \in Workers :
    /\ inv[w1].pc = "done" /\ ~inv[w1].transformed
    /\ inv[w1].message # << >> /\ inv[w1].resp.status = 500
    /\ inv[w2].pc = "done" /\ inv[w2].transformed /\ ~inv[w2].wrote
    /\ inv[w2].resp.status = 500
    /\ DOMAIN store # {}

\* the push request carries no NormalizedRecord: its body is no JSON object,
\* it has no "message" object with "data", or the data is not the base64 of
\* the UTF-8 text of a JSON object
Malformed(req) ==
  \/ req.json = "raise"
  \/ req.envelope.kind # "dict"
  \/ "message" \notin DOMAIN req.envelope.fields
  \/ req.envelope.fields.message.kind # "dict"
  \/ "data" \notin DOMAIN req.envelope.fields.message.fields
  \/ LET data == req.envelope.fields.message.fields.data
     IN \/ data.kind # "base64"
        \/ data.of.kind # "utf8"
        \/ data.of.of.kind # "json"
        \/ data.of.of.of.kind # "dict"

\* C9: a malformed envelope is answered 400, and nothing is written for it.
C9_MalformedIs400 ==
  \A w \in Workers :
    (inv[w].pc # "idle" /\ Malformed(inv[w].req)) =>
      /\ inv[w].pc = "done"
      /\ inv[w].resp.status = 400
      /\ ~inv[w].wrote

\* the record a well-formed push request carries
PushedRecord(req) == req.envelope.fields.message.fields.data.of.of.of.fields

Incomplete(r) ==
  \E k \in {"tenant_id", "log_id", "text", "source", "received_at"} :
    k \notin DOMAIN r \/ r[k] \in {None, << >>}

\* C10: a record with a field missing or empty is answered 400 without
\* being transformed or written, and every stored document comes from a
\* record with all five fields.
C10_IncompleteIs400 ==
  /\ \A w \in Workers :
       (/\ inv[w].pc # "idle"
        /\ ~Malformed(inv[w].req)
        /\ Incomplete(PushedRecord(inv[w].req))) =>
         /\ inv[w].pc = "done"
         /\ inv[w].resp.status = 400
         /\ ~inv[w].transformed
         /\ ~inv[w].wrote
  /\ \A m \in DOMAIN firstDoc : ~Incomplete(m)

\* the reason strings of the Gateway's 400 responses, by the item they name
NamesMissingItem(req, error) ==
  IF req.content_type = "text/plain"
  THEN IF req.tenant_header \in {None, << >>}
       THEN error = "Missing X-Tenant-ID header"
       ELSE error = "Empty text payload"
  ELSE IF req.json = "raise" \/ req.data.kind # "dict"
          \/ DOMAIN req.data.fields = {}
  THEN error = "Invalid JSON payload"
  ELSE IF Get(req.data.fields, "tenant_id") \in {None, << >>}
  THEN error = "Missing tenant_id"
  ELSE error = "Missing text"

\* C11: status classification.  A request of a recognized kind that fails
\* validation (a structured body that is missing, empty or unparseable
\* included) is answered 400 with the reason naming the missing item, a
\* request of any other kind 415, and 500 is answered only by a call whose
\* publish failed.
C11_StatusClassification ==
  gw.resp.status # 0 =>
    /\ (/\ gw.req.content_type \in {"application/json", "text/plain"}
        /\ InvalidRequest(gw.req)) =>
         /\ gw.resp.status = 400
         /\ NamesMissingItem(gw.req, gw.resp.error)
    /\ gw.req.content_type \notin {"application/json", "text/plain"} =>
         gw.resp.status = 415
    /\ gw.resp.status = 500 => gw.attempts = 1

\* C12: a failed publish.  A call whose publish is not confirmed answers 500
\* and never reports the submission as accepted, and no call makes more than
\* one publish attempt: the published messages grow by at most one per call.
C12_PublishFailureIs500 ==
  [][/\ gw'.attempts <= 1
     /\ Len(published') <= Len(published) + 1
     /\ (uuids' # uuids /\ published' = published) =>
          /\ gw'.attempts = 1
          /\ gw'.resp.status = 500
          /\ gw'.resp.message_id = None]_vars

C12_Witness ==
  /\ gw.attempts = 1
  /\ gw.resp.status = 500
  /\ ~InvalidRequest(gw.req)
  /\ published = << >>

\* what a request submits, by its kind
SubmittedTenant(req) ==
  IF req.content_type = "text/plain"
  THEN req.tenant_header
  ELSE req.data.fields.tenant_id

SubmittedText(req) ==
  IF req.content_type = "text/plain" THEN req.body ELSE req.data.fields.text

SourceTag(req) ==
  IF req.content_type = "text/plain" THEN Str_text_upload ELSE Str_json_upload

\* C13: normalization.  A call with a valid structured or raw-text payload
\* reaches the publish; it answers 202 unless the publish failed, and when it
\* answers 202 the record it published carries the submitted tenant_id and
\* text unchanged and the source tag of its kind.
C13_Normalization ==
  (gw.resp.status # 0 /\ ~InvalidRequest(gw.req)) =>
    /\ gw.attempts = 1
    /\ gw.resp.status \in {202, 500}
    /\ gw.resp.status = 202 =>
         LET r == RecordOf(published[Len(published)])
         IN /\ r.tenant_id = SubmittedTenant(gw.req)
            /\ r.text = SubmittedText(gw.req)
            /\ r.source = SourceTag(gw.req)

\* a raw-text submission has been accepted after a structured one
C13_Witness ==
  /\ gw.resp.status = 202
  /\ gw.req.content_type = "text/plain"
  /\ Len(published) = 2
  /\ RecordOf(published[1]).source = Str_json_upload
  /\ RecordOf(published[2]).source = Str_text_upload

\* the identifiers uuid4 can return within the bound
GeneratedIds == {Uuid4(k) : k \in 0 .. MaxUuid}

\* the request supplies a log_id of its own
ExplicitLogId(req) ==
  /\ req.content_type = "application/json"
  /\ "log_id" \in DOMAIN req.data.fields

\* C14: fresh log_id.  An accepted call that supplied a log_id is published
\* with that log_id; an accepted call that supplied none (every raw-text call
\* included) is published with a generated log_id that no earlier message
\* carries, and no two published records with generated log_ids share one.
C14_FreshLogId ==
  /\ gw.resp.status = 202 =>
       LET n == Len(published)
           id == RecordOf(published[n]).log_id
       IN IF ExplicitLogId(gw.req)
          THEN id = gw.req.data.fields.log_id
          ELSE /\ id \in GeneratedIds
               /\ \A i \in 1 .. n - 1 : RecordOf(published[i]).log_id # id
  /\ \A i, j \in 1 .. Len(published) :
       (/\ i # j
        /\ RecordOf(published[i]).log_id \in GeneratedIds
        /\ RecordOf(published[j]).log_id \in GeneratedIds) =>
         RecordOf(published[i]).log_id # RecordOf(published[j]).log_id

\* a raw-text call and a structured call without log_id are both published
C14_Witness ==
  /\ Len(published) = 2
  /\ RecordOf(published[1]).log_id \in GeneratedIds
  /\ RecordOf(published[2]).log_id \in GeneratedIds
  /\ RecordOf(published[1]).source # RecordOf(published[2]).source

\* ------------------------------------------------ the worked scenario

Str_acme == <<"a", "c", "m", "e">>
Str_ping ==
  <<"p", "i", "n", "g", " ", "5", "5", "5", "-", "0", "1", "9", "9", " ", "p", "l", "e", "a", "s", "e">>
Str_ping_redacted == <<"p", "i", "n", "g", " ">> \o REDACTED \o <<" ", "p", "l", "e", "a", "s", "e">>

\* the submission of the worked scenario, and one that supplies an empty
\* log_id
EndToEndRequests ==
  {JsonRequest("value", JsonDict(f)) :
     f \in {[tenant_id |-> Str_acme, text |-> Str_ping],
            [tenant_id |-> Str_acme, text |-> Str_hi, log_id |-> << >>]}}

NextEndToEnd ==
  \/ Tick
  \/ \E req \in EndToEndRequests : Ingest(req)
  \/ \E w \in Workers : \E req \in BusPushes : Deliver(w, req)
  \/ \E w \in Workers : Transform(w)
  \/ \E w \in Workers : Write(w)
  \/ \E w \in Workers : Return(w)

SpecEndToEnd == Init /\ [][NextEndToEnd]_vars

\* C15: the worked scenario.  The submission of tenant "acme" with text
\* "ping 555-0199 please" is answered 202 unless its publish failed, and
\* every document stored for it lies at tenants/acme/processed_logs/{log_id}
\* with modified_data "ping [REDACTED] please" and text_length 20.
C15_EndToEndScenario ==
  /\ (/\ gw.resp.status # 0
      /\ SubmittedText(gw.req) = Str_ping
      /\ ~(gw.attempts = 1 /\ gw.resp.status = 500)) =>
       gw.resp.status = 202
  /\ \A p \in DOMAIN store :
       store[p].original_text = Str_ping =>
         /\ \E i \in 1 .. Len(published) :
              /\ RecordOf(published[i]).tenant_id = Str_acme
              /\ p = Str_tenants \o Str_slash \o Str_acme \o Str_slash
                       \o Str_processed_logs \o Str_slash
                       \o RecordOf(published[i]).log_id
         /\ store[p].modified_data = Str_ping_redacted
         /\ store[p].text_length = 20

\* ------------------------------------------ the transform on its own

Str_call ==
  <<"c", "a", "l", "l", " ", "5", "5", "5", "-", "1", "2", "3", "-", "4", "5", "6", "7", " ", "n", "o", "w">>
Str_call_redacted == <<"c", "a", "l", "l", " ">> \o REDACTED \o <<" ", "n", "o", "w">>
Str_paren ==
  <<"(", "5", "5", "5", ")", " ", "1", "2", "3", "-", "4", "5", "6", "7">>

\* the texts the transform is applied to
TransformTexts == {Str_call, Str_room, Str_paren}

TransformPushes ==
  {EnvelopeOf(Base64Encode(Utf8Encode(JsonDumps(JsonDict(
     [BaseRecord EXCEPT !.text = x]))))) : x \in TransformTexts}

\* the Consumer over records that differ in their text alone
NextTransform ==
  \/ Tick
  \/ \E w \in Workers : \E req \in TransformPushes : Deliver(w, req)
  \/ \E w \in Workers : Transform(w)
  \/ \E w \in Workers : Write(w)
  \/ \E w \in Workers : Return(w)

SpecTransform == Init /\ [][NextTransform]_vars

\* C16: the reference transform.  It turns "call 555-123-4567 now" into
\* "call [REDACTED] now", leaves "room 4567" as it is, and redacts a number
\* written with a parenthesized leading group: no digit of "(555) 123-4567"
\* is left in the result.
C16_ReferenceTransform ==
  \A w \in Workers :
    inv[w].transformed =>
      LET text == inv[w].message.text
          out == inv[w].modified_text
      IN /\ text = Str_call => out = Str_call_redacted
         /\ text = Str_room => out = text
         /\ text = Str_paren => \A i \in 1 .. Len(out) : out[i] \notin Digits

\* C17: received_at is set once.  The document stored by the first and by
\* every later delivery of a record carries the received_at the Gateway put
\* in the published record; processed_at is a reading of the Consumer's own
\* clock.
C17_ReceivedAtSetOnce ==
  /\ \A m \in DOMAIN firstDoc :
       /\ \E i \in 1 .. Len(published) : RecordOf(published[i]) = m
       /\ firstDoc[m].received_at = m.received_at
  /\ \A p \in DOMAIN store :
       /\ \E i \in 1 .. Len(published) :
            LET r == RecordOf(published[i])
            IN /\ PathOf(r) = p
               /\ r.text = store[p].original_text
               /\ r.received_at = store[p].received_at
       /\ \E t \in 0 .. now : store[p].processed_at = IsoFormat(t)

\* a record received at one time has been stored at a later one, twice
C17_Witness ==
  \E m \in DOMAIN firstDoc :
    /\ PathOf(m) \in DOMAIN store
    /\ store[PathOf(m)].received_at = m.received_at
    /\ store[PathOf(m)].processed_at # m.received_at
    /\ firstDoc[m].processed_at = m.received_at

\* the reason strings written out in the two handlers
GatewayReasons ==
  {"Invalid JSON payload", "Missing tenant_id", "Missing text",
   "Missing X-Tenant-ID header", "Empty text payload",
   "Unsupported Content-Type. Use application/json or text/plain",
   "Internal server error"}

ConsumerReasons ==
  {"No Pub/Sub message received", "Invalid Pub/Sub message format",
   "No data in Pub/Sub message", "Missing required fields in message"}

\* C18: no failure response exposes internal details.  The reason of every
\* failure response of the Gateway and of the Consumer is one of the fixed
\* reason strings, never the text of an exception.
C18_NoInternalDetails ==
  /\ gw.resp.status \notin {0, 202} => gw.resp.error \in GatewayReasons
  /\ \A w \in Workers :
       (inv[w].pc = "done" /\ inv[w].resp.status # 200) =>
         inv[w].resp.error \in ConsumerReasons \cup GatewayReasons

\* C19: delivery progress.  Every submission the Gateway accepted can reach
\* Stored: no delivery of its message is rejected by the Consumer's checks.
\* Those checks depend on the message alone, so a message rejected at one
\* delivery is rejected at every delivery and is never stored.
C19_AcceptedCanBeStored ==
  \A w \in Workers :
    (/\ inv[w].pc = "done"
     /\ \E i \in 1 .. Len(published) :
          inv[w].req = PushEnvelope(published[i])) =>
      inv[w].resp.status # 400

DocFields ==
  {"source", "original_text", "modified_data", "processed_at", "received_at",
   "text_length"}

\* C20: the store invariant.  Every stored document has exactly the six
\* fields, its modified_data is the transform of its original_text and its
\* text_length the length of its original_text; and it is the document of
\* one published record alone: text, source and received_at all come from
\* the same record, none left over from an earlier document at the key.
C20_StoreInvariant ==
  \A p \in DOMAIN store :
    /\ DOMAIN store[p] = DocFields
    /\ store[p].modified_data = simulate_heavy_processing(store[p].original_text)
    /\ store[p].text_length = Len(store[p].original_text)
    /\ \E i \in 1 .. Len(published) :
         LET r == RecordOf(published[i])
         IN /\ PathOf(r) = p
            /\ store[p].original_text = r.text
            /\ store[p].source = r.source
            /\ store[p].received_at = r.received_at

\* the document at a key has been replaced by that of another record, whose
\* text the transform changes
C20_Witness ==
  \E m \in DOMAIN firstDoc :
    /\ PathOf(m) \in DOMAIN store
    /\ store[PathOf(m)].original_text # m.text
    /\ store[PathOf(m)].modified_data # store[PathOf(m)].original_text
    /\ store[PathOf(m)].text_length # Len(store[PathOf(m)].modified_data)

====
